---- MODULE Spec2Model ----
(***************************************************************************)
(* Positional-embedding generators of                                      *)
(* cosmos_transfer1/diffusion/module/position_embedding.py.                *)
(*                                                                         *)
(* A tensor is a record [shape, data]: shape is the tuple of extents and   *)
(* data the elements in row-major (C-contiguous) order, so that a reshape  *)
(* keeps data and changes shape, as torch/einops do.  Elements are         *)
(* symbolic: an angle is <<"ang", pos, band>> (position times the          *)
(* frequency of a band), cos/sin of it are <<"cos", a>>, <<"sin", a>>,     *)
(* <<"-sin", a>>.  Positions are exact rationals <<num, den>> in lowest    *)
(* terms.  The channel entry C of the input shape is never read by any     *)
(* generator, so an input shape is <<B, T, H, W>>.                         *)
(***************************************************************************)
EXTENDS Integers, Sequences, FiniteSets, TLC

\* ------------------------------------------------------------------ bounds
MaxB == 2
MaxT == 2
MaxH == 2
MaxW == 2
MaxCp == 2

\* default base_fps of the rotary generators
BaseFps == 24

\* ----------------------------------------------------------------- helpers
Min(a, b) == IF a <= b THEN a ELSE b
Max(a, b) == IF a >= b THEN a ELSE b

RECURSIVE GCD(_, _)
GCD(a, b) == IF b = 0 THEN a ELSE GCD(b, a % b)

\* the rational n/d in lowest terms (d > 0, n >= 0)
Frac(n, d) == LET g == GCD(n, d) IN <<n \div g, d \div g>>

RECURSIVE Prod(_)
Prod(s) == IF Len(s) = 0 THEN 1 ELSE Head(s) * Prod(Tail(s))

\* python slicing s[:n]
Slice(s, n) == SubSeq(s, 1, Min(n, Len(s)))

\* python slicing s[a:b] on a tuple
Span(s, a, b) == SubSeq(s, a + 1, Min(b, Len(s)))

\* ----------------------------------------------------------------- results
\* a call either returns a tensor or raises
Ok(shape, data) == [ok |-> TRUE, err |-> "", shape |-> shape, data |-> data]
Raise(e) == [ok |-> FALSE, err |-> e, shape |-> <<>>, data |-> <<>>]
NoResult == [ok |-> FALSE, err |-> "no call", shape |-> <<>>, data |-> <<>>]

\* ------------------------------------------------------------------- input
\* fps argument: None, a python scalar, or a 1-D tensor with one value per
\* batch element
FpsNone == [kind |-> "none", v |-> <<>>]
FpsScalar(x) == [kind |-> "scalar", v |-> <<x>>]
FpsTensor(s) == [kind |-> "tensor", v |-> s]
FpsValues == {BaseFps, 2 * BaseFps}
FpsInputs(B) ==
    {FpsNone} \cup {FpsScalar(x) : x \in FpsValues}
              \cup {FpsTensor(s) : s \in [1..B -> FpsValues]}

Shapes == (1..MaxB) \X (1..MaxT) \X (1..MaxH) \X (1..MaxW)

\* context-parallel group as seen by this process: its size and this
\* process's position in it; NoGroup stands for None
NoGroup == [size |-> 0, rank |-> 0]
Groups == {[size |-> n, rank |-> r] : n \in 1..MaxCp, r \in 0..(MaxCp - 1)}
          \ {g \in [size : 1..MaxCp, rank : 0..(MaxCp - 1)] : g.rank >= g.size}


\* ------------------------------------------------------------- generators
\* A constructed generator: the constructor arguments it keeps.  dim is
\* head_dim (rotary) or model_channels (additive).
Gen(kind, dim, len_h, len_w, len_t, n_views) ==
    [kind |-> kind, dim |-> dim, len_h |-> len_h, len_w |-> len_w,
     len_t |-> len_t, base_fps |-> BaseFps, n_views |-> n_views,
     interpolation |-> "crop", min_fps |-> BaseFps, max_fps |-> (5 * BaseFps) \div 2]

\* AxisDimSplit of __init__: dim_h = dim // 6 * 2, dim_w = dim_h, dim_t = rest
dim_h(self) == (self.dim \div 6) * 2
dim_w(self) == dim_h(self)
dim_t(self) == self.dim - 2 * dim_h(self)

\* torch.arange(0, d, 2)[: d // 2] / d : the exponents 2k/d, kept as <<k, d>>
dim_range(d) == [k \in 1..Min((d + 1) \div 2, d \div 2) |-> <<k - 1, d>>]
dim_spatial_range(self) == dim_range(dim_h(self))
dim_temporal_range(self) == dim_range(dim_t(self))

\* register_buffer("seq", torch.arange(max(len_h, len_w, len_t)))
seq(self) == [i \in 1..Max(self.len_h, Max(self.len_w, self.len_t)) |-> i - 1]

\* cached NTK factor extrapolation_ratio ** (dim / (dim - 2)) with the
\* default extrapolation ratio 1.0
default_ntk_factor == 1
NoNtk == 0
NtkNone == <<NoNtk, NoNtk, NoNtk>>

\* 1.0 / (theta ** range) with theta = 10000.0 * ntk_factor: one frequency
\* per exponent, kept as <<ntk_factor, k, d>>
freqs(ntk_factor, range) == [k \in 1..Len(range) |-> <<ntk_factor>> \o range[k]]

\* torch.outer(positions, freqs): rows of angles
Angle(pos, f) == <<"ang", pos, f>>
outer(positions, fr) ==
    [i \in 1..Len(positions) |-> [k \in 1..Len(fr) |-> Angle(positions[i], fr[k])]]

\* positions of an un-rescaled index slice
Unscaled(s) == [i \in 1..Len(s) |-> Frac(s[i], 1)]

\* s / fps * base_fps by torch broadcasting, fps a python scalar or a 1-D
\* tensor; ok is FALSE when the two lengths do not broadcast
ScaleByFps(s, fps, base_fps) ==
    LET m == Len(s)
        n == Len(fps.v)
    IN  IF fps.kind = "scalar"
        THEN [ok |-> TRUE, v |-> [i \in 1..m |-> Frac(s[i] * base_fps, fps.v[1])]]
        ELSE IF m = n \/ m = 1 \/ n = 1
             THEN [ok |-> TRUE,
                   v |-> [i \in 1..(IF m = 1 THEN n ELSE m) |->
                            Frac(s[IF m = 1 THEN 1 ELSE i] * base_fps,
                                 fps.v[IF n = 1 THEN 1 ELSE i])]]
             ELSE [ok |-> FALSE, v |-> <<>>]

\* fps.min() == fps.max() on a 1-D tensor
AllEqual(v) == \A i, j \in 1..Len(v) : v[i] = v[j]

\* torch.stack([cos, -sin, sin, cos], dim=-1) of one angle
RotBlock(a) == <<<<"cos", a>>, <<"-sin", a>>, <<"sin", a>>, <<"cos", a>>>>

\* rows (each a tuple of q elements) laid out one after the other
FlattenRows(rows, q) ==
    [n \in 1..(Len(rows) * q) |-> rows[((n - 1) \div q) + 1][((n - 1) % q) + 1]]

RECURSIVE ConcatAll(_)
ConcatAll(ss) == IF Len(ss) = 0 THEN <<>> ELSE Head(ss) \o ConcatAll(Tail(ss))

\* the temporal half-embedding of VideoRopePosition3DEmb (use_TE is False)
Rope3D_half_emb_t(self, T, fps, t_ntk) ==
    LET temporal_freqs == freqs(t_ntk, dim_temporal_range(self))
    IN  IF fps.kind = "none"
        THEN [ok |-> TRUE, v |-> outer(Unscaled(Slice(seq(self), T)), temporal_freqs)]
        ELSE LET sc == ScaleByFps(Slice(seq(self), T), fps, self.base_fps)
             IN  [ok |-> sc.ok, v |-> outer(sc.v, temporal_freqs)]

\* assert uniform_fps or B == 1 or T == 1
Rope3D_fps_unchecked(B, T, fps) == TRUE
Rope3D_fps_accepted(B, T, fps) ==
    LET uniform_fps == fps.kind = "none" \/ fps.kind = "scalar" \/ AllEqual(fps.v)
    IN  uniform_fps \/ B = 1 \/ T = 1

\* VideoRopePosition3DEmb.generate_embeddings
VideoRopePosition3DEmb_generate_embeddings(self, B_T_H_W_C, fps, ntk) ==
    LET B == B_T_H_W_C[1]
        T == B_T_H_W_C[2]
        H == B_T_H_W_C[3]
        W == B_T_H_W_C[4]
        h_ntk_factor == IF ntk[1] # NoNtk THEN ntk[1] ELSE default_ntk_factor
        w_ntk_factor == IF ntk[2] # NoNtk THEN ntk[2] ELSE default_ntk_factor
        t_ntk_factor == IF ntk[3] # NoNtk THEN ntk[3] ELSE default_ntk_factor
        half_emb_h == outer(Unscaled(Slice(seq(self), H)),
                            freqs(h_ntk_factor, dim_spatial_range(self)))
        half_emb_w == outer(Unscaled(Slice(seq(self), W)),
                            freqs(w_ntk_factor, dim_spatial_range(self)))
        half_emb_t == Rope3D_half_emb_t(self, T, fps, t_ntk_factor)
        P == Len(dim_temporal_range(self)) + 2 * Len(dim_spatial_range(self))
        Pt == Len(dim_temporal_range(self))
        Ps == Len(dim_spatial_range(self))
        \* cat([t, h, w], dim=-2) at grid point p = (t*H + h)*W + w: its P
        \* channel pairs, each a block of 4 entries "(i j)"
        row(p) == LET w == p % W
                      h == (p \div W) % H
                      t == p \div (H * W)
                      cat == half_emb_t.v[t + 1] \o half_emb_h[h + 1] \o half_emb_w[w + 1]
                  IN  [n \in 1..(4 * P) |-> RotBlock(cat[((n - 1) \div 4) + 1])[((n - 1) % 4) + 1]]
    IN  IF ~Rope3D_fps_accepted(B, T, fps) THEN Raise("AssertionError: fps")
        ELSE IF ~(H <= self.len_h /\ W <= self.len_w) THEN Raise("AssertionError: H, W")
        ELSE IF ~half_emb_t.ok THEN Raise("RuntimeError: broadcast")
        \* torch.cat needs equal t, h, w extents of the three repeated blocks
        ELSE IF Len(half_emb_t.v) # T \/ Len(half_emb_h) # H \/ Len(half_emb_w) # W
             THEN Raise("RuntimeError: cat")
        ELSE Ok(<<T * H * W, P, 2, 2>>,
                ConcatAll([p \in 1..(T * H * W) |-> row(p - 1)]))


\* ---------------------------------------------------- VideoRopePositionEmb
\* register_buffer("seq", torch.arange(len_h * len_w * len_t))
Rope_seq(self) == [i \in 1..(self.len_h * self.len_w * self.len_t) |-> i - 1]

\* VideoRopePositionEmb.generate_embeddings (ntk_factor = 1.0)
VideoRopePositionEmb_generate_embeddings(self, B_T_H_W_C, fps) ==
    LET T == B_T_H_W_C[2]
        H == B_T_H_W_C[3]
        W == B_T_H_W_C[4]
        freq == freqs(default_ntk_factor, dim_range(self.dim))
        length == T * H * W
        emb_L_D == outer(Unscaled(Slice(Rope_seq(self), length)), freq)
        rows == [l \in 1..Len(emb_L_D) |-> emb_L_D[l] \o emb_L_D[l]]
    IN  Ok(<<Len(rows), 1, 1, 2 * Len(freq)>>, FlattenRows(rows, 2 * Len(freq)))

\* --------------------------------------------------- sinusoidal builders
\* get_1d_sincos_pos_embed_from_grid: per position, sin of every frequency
\* then cos of every frequency
get_1d_sincos_pos_embed_from_grid(embed_dim, pos) ==
    LET half == embed_dim \div 2
    IN  [m \in 1..Len(pos) |->
           [c \in 1..(2 * half) |->
              IF c <= half
              THEN <<"sin", Angle(pos[m], <<default_ntk_factor, c - 1, embed_dim>>)>>
              ELSE <<"cos", Angle(pos[m], <<default_ntk_factor, c - 1 - half, embed_dim>>)>>]]

\* np.arange(n) (interpolation scale and extrapolation ratio 1.0)
arange(n) == [i \in 1..n |-> Frac(i - 1, 1)]

\* get_3d_sincos_pos_embed(concat=True): row f of the (H*W*T, D) table.
\* np.meshgrid(grid_w, grid_h, grid_t, indexing="ij") has shape (W, H, T);
\* the reshape to (3, 1, H, W, T) keeps the flat order.
get_3d_sincos_pos_embed(embed_dim, grid_size_h, grid_size_w, grid_size_t) ==
    LET per_axis == ((embed_dim \div 3) \div 2) * 2
        d_t == embed_dim - 2 * per_axis
        n == grid_size_h * grid_size_w * grid_size_t
        \* the flattened meshgrid outputs
        grid0 == [f \in 1..n |-> arange(grid_size_w)[((f - 1) \div (grid_size_h * grid_size_t)) + 1]]
        grid1 == [f \in 1..n |-> arange(grid_size_h)[(((f - 1) \div grid_size_t) % grid_size_h) + 1]]
        grid2 == [f \in 1..n |-> arange(grid_size_t)[((f - 1) % grid_size_t) + 1]]
        emb_h == get_1d_sincos_pos_embed_from_grid(per_axis, grid0)
        emb_w == get_1d_sincos_pos_embed_from_grid(per_axis, grid1)
        emb_t == get_1d_sincos_pos_embed_from_grid(d_t, grid2)
    IN  [f \in 1..n |-> emb_h[f] \o emb_w[f] \o emb_t[f]]

\* rearrange(param, "(h w t) c -> 1 t h w c", h=len_h, w=len_w): the stored
\* table as a function of (t, h, w), 0-based
pos_embed_table(param, len_h, len_w, len_t) ==
    [t \in 0..(len_t - 1) |-> [h \in 0..(len_h - 1) |-> [w \in 0..(len_w - 1) |->
        param[((h * len_w + w) * len_t + t) + 1]]]]

\* an additive tensor (b, t, h, w, c) from its entry function, row-major
Additive(nb, nt, nh, nw, nc, entry(_, _, _, _)) ==
    Ok(<<nb, nt, nh, nw, nc>>,
       FlattenRows([p \in 1..(nb * nt * nh * nw) |->
                      LET q == p - 1
                      IN  entry(q \div (nt * nh * nw), (q \div (nh * nw)) % nt,
                                (q \div nw) % nh, q % nw)], nc))

\* F.interpolate(x, size, mode)[at]: the interpolated values are kept
\* symbolic, by mode, target size, target coordinate and interpolated source
Interpolated(mode, size, at, x) == <<"interpolate", mode, size, at, x>>

\* ----------------------------------------------------------- SinCosPosEmb
\* default of SinCosPosEmb.__init__
init_length_for_resize == 16

SinCosPosEmb_pos_embed(self) ==
    pos_embed_table(get_3d_sincos_pos_embed(self.dim, self.len_h, self.len_w, self.len_t),
                    self.len_h, self.len_w, self.len_t)

\* self.pos_embed[:, :T, :H, :W]
SinCosPosEmb_crop(self, B_T_H_W_C) ==
    LET T == B_T_H_W_C[2]
        H == B_T_H_W_C[3]
        W == B_T_H_W_C[4]
        tab == SinCosPosEmb_pos_embed(self)
        entry(b, t, h, w) == tab[t][h][w]
    IN  Additive(1, Min(T, self.len_t), Min(H, self.len_h), Min(W, self.len_w),
                 self.dim, entry)

SinCosPosEmb_falls_back_to_crop(self, B_T_H_W_C, fps) == SinCosPosEmb_crop(self, B_T_H_W_C)

\* SinCosPosEmb.generate_embeddings
SinCosPosEmb_generate_embeddings(self, B_T_H_W_C, fps) ==
    LET T == B_T_H_W_C[2]
        H == B_T_H_W_C[3]
        W == B_T_H_W_C[4]
        \* pos_embed_crop = self.pos_embed[:, : self.init_length_for_resize, :H, :W]
        crop_t == Min(init_length_for_resize, self.len_t)
        crop_h == Min(H, self.len_h)
        crop_w == Min(W, self.len_w)
        \* linear along time to T, then bilinear over the plane to (H, W)
        resized(b, t, h, w) ==
            [c \in 1..self.dim |->
               Interpolated("bilinear", <<H, W>>, <<h, w>>,
                  Interpolated("linear", <<T>>, <<t>>,
                     <<"pos_embed_crop", <<crop_t, crop_h, crop_w>>, c - 1>>))]
    IN  IF self.interpolation = "crop"
        THEN SinCosPosEmb_crop(self, B_T_H_W_C)
        \* F.interpolate(mode="linear") takes a 3-D input; the table has 5 axes
        ELSE IF self.interpolation = "resize"
        THEN Raise("NotImplementedError: Got 5D input, but linear mode needs 3D input")
        ELSE IF self.interpolation = "crop_resize"
        THEN Additive(1, T, H, W, self.dim, resized)
        ELSE Raise("ValueError: interpolation")

\* ------------------------------------------------------- SinCosPosEmbAxis
\* the three per-axis buffers of SinCosPosEmbAxis.__init__
pos_emb_h(self) == get_1d_sincos_pos_embed_from_grid(dim_h(self), arange(self.len_h))
pos_emb_w(self) == get_1d_sincos_pos_embed_from_grid(dim_w(self), arange(self.len_w))
pos_emb_t(self) == get_1d_sincos_pos_embed_from_grid(dim_t(self), arange(self.len_t))

\* SinCosPosEmbAxis.generate_embeddings, interpolation "crop"
SinCosPosEmbAxis_generate_embeddings(self, B_T_H_W_C, fps) ==
    LET B == B_T_H_W_C[1]
        T == B_T_H_W_C[2]
        H == B_T_H_W_C[3]
        W == B_T_H_W_C[4]
        emb_h_H == Slice(pos_emb_h(self), H)
        emb_w_W == Slice(pos_emb_w(self), W)
        emb_t_T == Slice(pos_emb_t(self), T)
        entry(b, t, h, w) == emb_t_T[t + 1] \o emb_h_H[h + 1] \o emb_w_W[w + 1]
    IN  IF self.interpolation # "crop" THEN Raise("ValueError: interpolation")
        \* torch.cat(dim=-1) needs the three repeated blocks to agree on b, t, h, w
        ELSE IF Len(emb_t_T) # T \/ Len(emb_h_H) # H \/ Len(emb_w_W) # W
             THEN Raise("RuntimeError: cat")
        ELSE Additive(B, T, H, W, Len(entry(0, 0, 0, 0)), entry)


\* ---------------------------------------------------- LearnablePosEmbAxis
\* pos_emb_h/w/t are parameters: their values are whatever was loaded, kept
\* symbolic per table row.  The three repeated tables are added with torch
\* broadcasting and normalize() rescales each channel vector.
LearnablePosEmbAxis_generate_embeddings(self, B_T_H_W_C, fps) ==
    LET B == B_T_H_W_C[1]
        T == B_T_H_W_C[2]
        H == B_T_H_W_C[3]
        W == B_T_H_W_C[4]
        nt == Min(T, self.len_t)
        nh == Min(H, self.len_h)
        nw == Min(W, self.len_w)
        bc(n, full) == n = full \/ n = 1
        entry(b, t, h, w) ==
            [c \in 1..self.dim |->
               <<"normalize", <<"pos_emb_t", IF nt = 1 THEN 0 ELSE t>>,
                 <<"pos_emb_h", IF nh = 1 THEN 0 ELSE h>>,
                 <<"pos_emb_w", IF nw = 1 THEN 0 ELSE w>>, c - 1>>]
    IN  IF self.interpolation # "crop" THEN Raise("ValueError: interpolation")
        ELSE IF ~(bc(nt, T) /\ bc(nh, H) /\ bc(nw, W)) THEN Raise("RuntimeError: add")
        ELSE Additive(B, T, H, W, self.dim, entry)

\* ------------------------------------------------- SinCosPosEmb_FPS_Aware
\* table time length: len_t * int(max_fps / min_fps) in the "crop" mode,
\* len_t in the "resize" mode
FPS_Aware_len_t(self) ==
    IF self.interpolation = "crop"
    THEN self.len_t * (self.max_fps \div self.min_fps)
    ELSE self.len_t

SinCosPosEmb_FPS_Aware_pos_embed(self) ==
    pos_embed_table(get_3d_sincos_pos_embed(self.dim, self.len_h, self.len_w,
                                            FPS_Aware_len_t(self)),
                    self.len_h, self.len_w, FPS_Aware_len_t(self))

\* int(self.max_fps / curr_fps)
FPS_Aware_stride_rounded_up(self, curr_fps) == (self.max_fps + curr_fps - 1) \div curr_fps
FPS_Aware_stride(self, curr_fps) == self.max_fps \div curr_fps

\* range(0, stop, step) as a tuple
RangeStep(stop, step) == [i \in 1..((stop + step - 1) \div step) |-> (i - 1) * step]

\* SinCosPosEmb_FPS_Aware.generate_embeddings, interpolation "crop"
SinCosPosEmb_FPS_Aware_generate_embeddings(self, B_T_H_W_C, fps) ==
    LET T == B_T_H_W_C[2]
        H == B_T_H_W_C[3]
        W == B_T_H_W_C[4]
        Lt == FPS_Aware_len_t(self)
        tab == SinCosPosEmb_FPS_Aware_pos_embed(self)
        nh == Min(H, self.len_h)
        nw == Min(W, self.len_w)
        stride(i) == FPS_Aware_stride(self, fps.v[i])
        \* time indices of pos_embed[:, : stride * T : stride]
        times(i) == RangeStep(Min(stride(i) * T, Lt), stride(i))
        video(b, t, h, w) == tab[times(b + 1)[t + 1]][h][w]
        image(b, t, h, w) == tab[t][h][w]
        \* int(curr_fps / self.min_fps)
        factor(i) == fps.v[i] \div self.min_fps
        \* trilinear to (H, W, T * factor), then [:, :, :H, :W, :T]
        resized(b, t, h, w) ==
            [c \in 1..self.dim |->
               Interpolated("trilinear", <<H, W, T * factor(b + 1)>>, <<h, w, t>>,
                            <<"pos_embed", c - 1>>)]
        \* pos_embed[:, 0, ::] resized over the plane: "1 c h w -> 1 h w c"
        plane == [p \in 1..(H * W) |->
                    [c \in 1..self.dim |->
                       Interpolated("bilinear", <<H, W>>, <<(p - 1) \div W, (p - 1) % W>>,
                                    <<"pos_embed[:, 0]", c - 1>>)]]
    IN  IF self.interpolation = "resize"
        THEN IF T > 1
             THEN IF fps.kind # "tensor" THEN Raise("TypeError: fps is not iterable")
                  ELSE IF \E i \in 1..Len(fps.v) : factor(i) = 0
                       THEN Raise("RuntimeError: interpolate output size")
                  ELSE Additive(Len(fps.v), T, H, W, self.dim, resized)
             ELSE Ok(<<1, H, W, self.dim>>, FlattenRows(plane, self.dim))
        ELSE IF self.interpolation # "crop" THEN Raise("ValueError: interpolation")
        ELSE IF T > 1
        THEN IF fps.kind # "tensor" THEN Raise("TypeError: fps is not iterable")
             ELSE IF \E i \in 1..Len(fps.v) : stride(i) = 0
                  THEN Raise("ValueError: slice step cannot be zero")
             \* torch.cat(dim=0) needs every per-sample slice to have the same extents
             ELSE IF \E i \in 1..Len(fps.v) : Len(times(i)) # Len(times(1))
                  THEN Raise("RuntimeError: cat")
             ELSE Additive(Len(fps.v), Len(times(1)), nh, nw, self.dim, video)
        ELSE Additive(1, Min(T, Lt), nh, nw, self.dim, image)

\* ------------------------------------- MultiCameraVideoRopePosition3DEmb
\* assert uniform_fps, with uniform_fps = (fps is None) or (fps.min() == fps.max())
MultiCamera_uniform_fps(fps) == fps.kind = "none" \/ AllEqual(fps.v)

\* if fps is None: assert T == 1
MultiCamera_image_case_accepted(fps, T) == fps.kind # "none" \/ T = 1

\* generate_embedding_for_batch: the (T, H, W, D) block of one view, its
\* last axis the angles [t, h, w] repeated twice
MultiCamera_generate_embedding_for_batch(self, B_T_H_W_C, fps, ntk) ==
    LET B == B_T_H_W_C[1]
        T == B_T_H_W_C[2]
        H == B_T_H_W_C[3]
        W == B_T_H_W_C[4]
        h_ntk_factor == IF ntk[1] # NoNtk THEN ntk[1] ELSE default_ntk_factor
        w_ntk_factor == IF ntk[2] # NoNtk THEN ntk[2] ELSE default_ntk_factor
        t_ntk_factor == IF ntk[3] # NoNtk THEN ntk[3] ELSE default_ntk_factor
        temporal_freqs == freqs(t_ntk_factor, dim_temporal_range(self))
        half_emb_h == outer(Unscaled(Slice(seq(self), H)),
                            freqs(h_ntk_factor, dim_spatial_range(self)))
        half_emb_w == outer(Unscaled(Slice(seq(self), W)),
                            freqs(w_ntk_factor, dim_spatial_range(self)))
        \* seq[:T] / fps[:1] * base_fps
        half_emb_t ==
            IF fps.kind = "none"
            THEN outer(Unscaled(Slice(seq(self), T)), temporal_freqs)
            ELSE outer(ScaleByFps(Slice(seq(self), T), FpsTensor(Slice(fps.v, 1)),
                                  self.base_fps).v, temporal_freqs)
        D == 2 * (Len(temporal_freqs) + 2 * Len(dim_spatial_range(self)))
        row(p) == LET w == p % W
                      h == (p \div W) % H
                      t == p \div (H * W)
                      cat == half_emb_t[t + 1] \o half_emb_h[h + 1] \o half_emb_w[w + 1]
                  IN  cat \o cat
    IN  IF fps.kind = "scalar" THEN Raise("AttributeError: fps.min")
        ELSE IF ~MultiCamera_uniform_fps(fps) THEN Raise("AssertionError: uniform_fps")
        ELSE IF ~(H <= self.len_h /\ W <= self.len_w) THEN Raise("AssertionError: H, W")
        ELSE IF ~MultiCamera_image_case_accepted(fps, T) THEN Raise("AssertionError: T should be 1")
        ELSE IF Len(half_emb_t) # T \/ Len(half_emb_h) # H \/ Len(half_emb_w) # W
             THEN Raise("RuntimeError: cat")
        ELSE Ok(<<T, H, W, D>>, FlattenRows([p \in 1..(T * H * W) |-> row(p - 1)], D))

\* torch.cat of the per-view block, n_views times along axis 0
MultiCamera_cat_views(one, n_views) ==
    IF ~one.ok THEN one
    ELSE Ok(<<n_views * one.shape[1], one.shape[2], one.shape[3], one.shape[4]>>,
            ConcatAll([item \in 1..n_views |-> one.data]))

\* MultiCameraVideoRopePosition3DEmb.generate_embeddings
MultiCameraVideoRopePosition3DEmb_generate_embeddings(self, B_T_H_W_C, fps, ntk) ==
    MultiCamera_cat_views(
        MultiCamera_generate_embedding_for_batch(self,
            <<B_T_H_W_C[1], B_T_H_W_C[2] \div self.n_views, B_T_H_W_C[3], B_T_H_W_C[4]>>,
            fps, ntk),
        self.n_views)

\* ------------------------------------------- MultiCameraSinCosPosEmbAxis
MultiCameraSinCosPosEmbAxis_generate_embeddings(self, B_T_H_W_C, fps) ==
    LET B == B_T_H_W_C[1]
        T == B_T_H_W_C[2]
        H == B_T_H_W_C[3]
        W == B_T_H_W_C[4]
        single_camera_T == T \div self.n_views
        emb_h_H == Slice(pos_emb_h(self), H)
        emb_w_W == Slice(pos_emb_w(self), W)
        emb_t_T == Slice(pos_emb_t(self), single_camera_T)
        \* torch.cat(views, 1): frame t of the result is frame t % single_camera_T of a view
        entry(b, t, h, w) ==
            emb_t_T[(t % single_camera_T) + 1] \o emb_h_H[h + 1] \o emb_w_W[w + 1]
    IN  IF self.interpolation # "crop" THEN Raise("ValueError: interpolation")
        ELSE IF Len(emb_t_T) # single_camera_T \/ Len(emb_h_H) # H \/ Len(emb_w_W) # W
             THEN Raise("RuntimeError: cat")
        \* assert list(emb.shape)[:4] == [B, T, H, W]
        ELSE IF self.n_views * single_camera_T # T THEN Raise("AssertionError: bad shape")
        ELSE Additive(B, T, H, W, self.dim, entry)


\* ---------------------------------------------- context-parallel adapters
\* The sequence splitter of cosmos_transfer1.diffusion.module.parallel: this
\* rank's contiguous shard of axis seq_dim, the axis cut in cp_size equal
\* blocks.
split_inputs_cp(x, seq_dim, cp_group) ==
    IF seq_dim + 1 > Len(x.shape) THEN Raise("IndexError: seq_dim")
    ELSE LET n == x.shape[seq_dim + 1]
             cp_size == cp_group.size
             chunk == n \div cp_size
             inner == Prod(SubSeq(x.shape, seq_dim + 2, Len(x.shape)))
             outer_n == Prod(SubSeq(x.shape, 1, seq_dim))
         IN  IF n % cp_size # 0 THEN Raise("AssertionError: split")
             ELSE Ok([x.shape EXCEPT ![seq_dim + 1] = chunk],
                     [m \in 1..(outer_n * chunk * inner) |->
                        LET i == m - 1
                            o == i \div (chunk * inner)
                            j == (i \div inner) % chunk
                            k == i % inner
                        IN  x.data[((o * n + cp_group.rank * chunk + j) * inner + k) + 1]])

\* einops.rearrange that only regroups axes: same data, new shape
Reshape(x, shape) == Ok(shape, x.data)

\* generate_embeddings as forward calls it (no NTK overrides), by class
generate_embeddings(self, B_T_H_W_C, fps) ==
    CASE self.kind = "VideoRopePositionEmb" ->
            VideoRopePositionEmb_generate_embeddings(self, B_T_H_W_C, fps)
      [] self.kind = "VideoRopePosition3DEmb" ->
            VideoRopePosition3DEmb_generate_embeddings(self, B_T_H_W_C, fps, NtkNone)
      [] self.kind = "LearnablePosEmbAxis" ->
            LearnablePosEmbAxis_generate_embeddings(self, B_T_H_W_C, fps)
      [] self.kind = "SinCosPosEmbAxis" ->
            SinCosPosEmbAxis_generate_embeddings(self, B_T_H_W_C, fps)
      [] self.kind = "SinCosPosEmb_FPS_Aware" ->
            SinCosPosEmb_FPS_Aware_generate_embeddings(self, B_T_H_W_C, fps)
      [] self.kind = "SinCosPosEmb" ->
            SinCosPosEmb_generate_embeddings(self, B_T_H_W_C, fps)
      [] self.kind = "MultiCameraVideoRopePosition3DEmb" ->
            MultiCameraVideoRopePosition3DEmb_generate_embeddings(self, B_T_H_W_C, fps, NtkNone)
      [] self.kind = "MultiCameraSinCosPosEmbAxis" ->
            MultiCameraSinCosPosEmbAxis_generate_embeddings(self, B_T_H_W_C, fps)

\* what one forward call did: the tensor or error it ended with, how often it
\* asked get_process_group_ranks, how often it called split_inputs_cp, and
\* the seq_dim it handed over (NoAxis when the splitter was not called)
NoAxis == -1
Did(out, ranks_asked, split_calls, axis) ==
    [out |-> out, ranks_asked |-> ranks_asked, split_calls |-> split_calls, seq_dim |-> axis]

\* the seq_dim VideoPositionEmb.forward chooses
VideoPositionEmb_seq_dim(self) ==
    IF self.kind = "VideoRopePosition3DEmb" THEN 0 ELSE 1

\* B_T_H_W_C = (B, T * cp_size, H, W, C)
GlobalShape_not_expanded(B_T_H_W_C, cp_size) == B_T_H_W_C
GlobalShape(B_T_H_W_C, cp_size) ==
    <<B_T_H_W_C[1], B_T_H_W_C[2] * cp_size, B_T_H_W_C[3], B_T_H_W_C[4]>>

\* the shape forward generates for: the global one when a group is set
forward_B_T_H_W_C(group, x_shape) ==
    IF group # NoGroup THEN GlobalShape(x_shape, group.size) ELSE x_shape

\* VideoPositionEmb.forward after generate_embeddings returned embeddings
VideoPositionEmb_split(self, group, embeddings) ==
    IF group # NoGroup
    THEN IF ~embeddings.ok THEN Did(embeddings, 1, 0, NoAxis)
         ELSE Did(split_inputs_cp(embeddings, VideoPositionEmb_seq_dim(self), group),
                  1, 1, VideoPositionEmb_seq_dim(self))
    ELSE Did(embeddings, 0, 0, NoAxis)

\* VideoPositionEmb.forward
VideoPositionEmb_forward(self, group, x_shape, fps) ==
    VideoPositionEmb_split(self, group,
        generate_embeddings(self, forward_B_T_H_W_C(group, x_shape), fps))

\* rearrange(embeddings, "(V T) H W D -> V (T H W) 1 1 D", V=self.n_views)
MultiCamera_flat_views(embeddings, V) ==
    Reshape(embeddings, <<1, embeddings.shape[1] * embeddings.shape[2] * embeddings.shape[3],
                          1, 1, embeddings.shape[4]>>)
MultiCamera_separate_views(embeddings, V) ==
    Reshape(embeddings, <<V, (embeddings.shape[1] \div V) * embeddings.shape[2] * embeddings.shape[3],
                          1, 1, embeddings.shape[4]>>)

\* "V T 1 1 D -> (V T) 1 1 D" of the rotary shard b
MultiCamera_join_views(b, D) ==
    IF ~b.ok THEN Did(b, 1, 1, 1)
    ELSE Did(Reshape(b, <<b.shape[1] * b.shape[2], 1, 1, D>>), 1, 1, 1)

\* "(B V) T H W C -> B (V T) H W C" of the additive shard b
MultiCamera_join_batch(b, sh, V) ==
    IF ~b.ok THEN Did(b, 1, 1, 1)
    ELSE Did(Reshape(b, <<sh[1], V * b.shape[2], sh[3], sh[4], sh[5]>>), 1, 1, 1)

\* MultiCameraVideoPositionEmb.forward after generate_embeddings returned
\* embeddings
MultiCameraVideoPositionEmb_split(self, group, embeddings) ==
    IF group # NoGroup
    THEN IF ~embeddings.ok THEN Did(embeddings, 1, 0, NoAxis)
         ELSE IF self.kind = "MultiCameraVideoRopePosition3DEmb"
         THEN \* "(V T) H W D -> V (T H W) 1 1 D", split
              MultiCamera_join_views(
                  split_inputs_cp(MultiCamera_separate_views(embeddings, self.n_views), 1, group),
                  embeddings.shape[4])
         ELSE \* "B (V T) H W C -> (B V) T H W C", split
              MultiCamera_join_batch(
                  split_inputs_cp(
                      Reshape(embeddings, <<embeddings.shape[1] * self.n_views,
                                            embeddings.shape[2] \div self.n_views,
                                            embeddings.shape[3], embeddings.shape[4],
                                            embeddings.shape[5]>>),
                      1, group),
                  embeddings.shape, self.n_views)
    ELSE IF embeddings.ok /\ self.kind = "MultiCameraVideoRopePosition3DEmb"
         THEN \* "t h w d -> (t h w) 1 1 d"
              Did(Reshape(embeddings, <<embeddings.shape[1] * embeddings.shape[2]
                                            * embeddings.shape[3], 1, 1, embeddings.shape[4]>>),
                  0, 0, NoAxis)
         ELSE Did(embeddings, 0, 0, NoAxis)

\* MultiCameraVideoPositionEmb.forward
MultiCameraVideoPositionEmb_forward(self, group, x_shape, fps) ==
    MultiCameraVideoPositionEmb_split(self, group,
        generate_embeddings(self, forward_B_T_H_W_C(group, x_shape), fps))

IsMultiCamera(self) ==
    self.kind \in {"MultiCameraVideoRopePosition3DEmb", "MultiCameraSinCosPosEmbAxis"}

\* forward of the class the generator derives from
forward(self, group, x_shape, fps) ==
    IF IsMultiCamera(self)
    THEN MultiCameraVideoPositionEmb_forward(self, group, x_shape, fps)
    ELSE VideoPositionEmb_forward(self, group, x_shape, fps)

\* generate_embeddings with the keyword arguments h_ntk_factor, w_ntk_factor,
\* t_ntk_factor, which the two 3-D rotary generators take
NtkKinds == {"VideoRopePosition3DEmb", "MultiCameraVideoRopePosition3DEmb"}
NtkOverrides == {NtkNone, <<2, NoNtk, 3>>}
generate_embeddings_ntk(self, B_T_H_W_C, fps, ntk) ==
    CASE self.kind = "VideoRopePosition3DEmb" ->
            VideoRopePosition3DEmb_generate_embeddings(self, B_T_H_W_C, fps, ntk)
      [] self.kind = "MultiCameraVideoRopePosition3DEmb" ->
            MultiCameraVideoRopePosition3DEmb_generate_embeddings(self, B_T_H_W_C, fps, ntk)
      [] OTHER -> generate_embeddings(self, B_T_H_W_C, fps)

\* ------------------------------------------------------------ constructors
\* A constructor either returns the generator (NoError) or raises.
NoError == ""

\* the same constructor arguments with another interpolation mode
WithInterpolation(args, mode) == [args EXCEPT !.interpolation = mode]

\* assert self.interpolation in ["crop"]
interpolation_is_crop(args) == args.interpolation = "crop"

\* assert dim == dim_h + dim_w + dim_t
axis_split_asserted(args) == args.dim = dim_h(args) + dim_w(args) + dim_t(args)

\* extrapolation_ratio ** (dim / (dim - 2)): the division raises when dim is 2
ntk_factor_defined(args) == dim_h(args) # 2 /\ dim_w(args) # 2 /\ dim_t(args) # 2

\* VideoRopePosition3DEmb.__init__ and MultiCameraVideoRopePosition3DEmb.__init__
Rope3D_init(args) ==
    IF ~axis_split_asserted(args) THEN "AssertionError: bad dim"
    ELSE IF ~ntk_factor_defined(args) THEN "ZeroDivisionError"
    ELSE NoError

\* assert embed_dim % 2 == 0 of get_1d_sincos_pos_embed_from_grid
sincos_1d_asserted(embed_dim) == embed_dim % 2 = 0

\* SinCosPosEmbAxis.__init__ and MultiCameraSinCosPosEmbAxis.__init__
SinCosPosEmbAxis_init(args) ==
    IF ~interpolation_is_crop(args) THEN "AssertionError: Unknown interpolation method"
    ELSE IF ~axis_split_asserted(args) THEN "AssertionError: bad dim"
    ELSE IF ~(sincos_1d_asserted(dim_h(args)) /\ sincos_1d_asserted(dim_w(args))
              /\ sincos_1d_asserted(dim_t(args)))
         THEN "AssertionError: embed_dim"
    ELSE NoError

\* LearnablePosEmbAxis.__init__
LearnablePosEmbAxis_init(args) ==
    IF ~interpolation_is_crop(args) THEN "AssertionError: Unknown interpolation method"
    ELSE NoError

\* the axis widths of get_3d_sincos_pos_embed (concat=True)
sincos_3d_per_axis(embed_dim) == ((embed_dim \div 3) \div 2) * 2
sincos_3d_dim_t(embed_dim) == embed_dim - 2 * sincos_3d_per_axis(embed_dim)

\* SinCosPosEmb.__init__: the mode is stored unchecked, the table is built
SinCosPosEmb_init(args) ==
    IF ~sincos_1d_asserted(sincos_3d_dim_t(args.dim)) THEN "AssertionError: embed_dim"
    ELSE NoError

\* SinCosPosEmb_FPS_Aware.__init__: an unknown mode leaves param unbound
SinCosPosEmb_FPS_Aware_init(args) ==
    IF args.interpolation \notin {"crop", "resize"} THEN "UnboundLocalError: param"
    ELSE IF ~sincos_1d_asserted(sincos_3d_dim_t(args.dim)) THEN "AssertionError: embed_dim"
    ELSE NoError

\* LearnableEmb3D.__init__ and LearnableEmb3D_FPS_Aware.__init__ (is_learnable
\* left at its default True): trunc_normal_ is imported only when use_TE
LearnableEmb3D_init(args) == "NameError: trunc_normal_"

\* the constructor of the class args.kind names
construct(args) ==
    CASE args.kind \in {"VideoRopePosition3DEmb", "MultiCameraVideoRopePosition3DEmb"} ->
            Rope3D_init(args)
      [] args.kind \in {"SinCosPosEmbAxis", "MultiCameraSinCosPosEmbAxis"} ->
            SinCosPosEmbAxis_init(args)
      [] args.kind = "LearnablePosEmbAxis" -> LearnablePosEmbAxis_init(args)
      [] args.kind = "SinCosPosEmb" -> SinCosPosEmb_init(args)
      [] args.kind = "SinCosPosEmb_FPS_Aware" -> SinCosPosEmb_FPS_Aware_init(args)
      [] args.kind \in {"LearnableEmb3D", "LearnableEmb3D_FPS_Aware"} ->
            LearnableEmb3D_init(args)
      [] OTHER -> NoError

\* ------------------------------------------------------------ the program
\* the generators constructed
Rope3DConfigs ==
    {Gen("VideoRopePosition3DEmb", 14, 2, 2, 4, 1),
     Gen("VideoRopePosition3DEmb", 12, 1, 1, 1, 1)}
RopeConfigs == {Gen("VideoRopePositionEmb", 4, 2, 2, 4, 1)}
AdditiveConfigs ==
    {Gen("SinCosPosEmbAxis", 12, 2, 2, 4, 1),
     Gen("LearnablePosEmbAxis", 2, 2, 2, 4, 1),
     Gen("SinCosPosEmb", 12, 2, 2, 4, 1),
     Gen("SinCosPosEmb_FPS_Aware", 12, 2, 2, 4, 1)}
MultiCameraConfigs ==
    {Gen("MultiCameraVideoRopePosition3DEmb", 12, 2, 2, 4, 2),
     Gen("MultiCameraSinCosPosEmbAxis", 12, 2, 2, 4, 2)}
\* tables shorter in height than in width
ShortConfigs ==
    {Gen("SinCosPosEmb", 12, 1, 2, 2, 1),
     Gen("LearnablePosEmbAxis", 2, 1, 2, 2, 1)}
\* the interpolating modes of the whole-table generators
ResizeConfigs ==
    {WithInterpolation(Gen("SinCosPosEmb", 12, 2, 2, 4, 1), "resize"),
     WithInterpolation(Gen("SinCosPosEmb", 12, 2, 2, 4, 1), "crop_resize"),
     WithInterpolation(Gen("SinCosPosEmb_FPS_Aware", 12, 2, 2, 4, 1), "resize")}
\* a mode string no generator supports, on the constructor that stores it
\* unchecked
UnknownModeConfigs == {WithInterpolation(Gen("SinCosPosEmb", 12, 2, 2, 4, 1), "nearest")}
\* an odd head_dim
OddConfigs == {Gen("VideoRopePosition3DEmb", 13, 1, 1, 1, 1)}
Configs ==
    Rope3DConfigs \cup RopeConfigs \cup AdditiveConfigs \cup MultiCameraConfigs
        \cup OddConfigs \cup ShortConfigs \cup ResizeConfigs \cup UnknownModeConfigs

\* constructor calls that raise: an odd channel count, an axis width of 2,
\* an unsupported interpolation mode, the learnable 3-D tables
FailingArgs ==
    {Gen("SinCosPosEmbAxis", 13, 2, 2, 4, 1),
     Gen("MultiCameraSinCosPosEmbAxis", 13, 2, 2, 4, 2),
     Gen("VideoRopePosition3DEmb", 8, 2, 2, 4, 1),
     Gen("VideoRopePosition3DEmb", 2, 2, 2, 4, 1),
     Gen("MultiCameraVideoRopePosition3DEmb", 8, 2, 2, 4, 2),
     Gen("SinCosPosEmb", 13, 2, 2, 4, 1),
     Gen("LearnableEmb3D", 12, 2, 2, 4, 1),
     Gen("LearnableEmb3D_FPS_Aware", 12, 2, 2, 4, 1),
     WithInterpolation(Gen("LearnableEmb3D", 12, 2, 2, 4, 1), "resize"),
     WithInterpolation(Gen("LearnableEmb3D", 12, 2, 2, 4, 1), "nearest"),
     WithInterpolation(Gen("LearnableEmb3D_FPS_Aware", 12, 2, 2, 4, 1), "nearest"),
     WithInterpolation(Gen("LearnablePosEmbAxis", 2, 2, 2, 4, 1), "nearest"),
     WithInterpolation(Gen("SinCosPosEmbAxis", 12, 2, 2, 4, 1), "nearest"),
     WithInterpolation(Gen("MultiCameraSinCosPosEmbAxis", 12, 2, 2, 4, 2), "nearest"),
     WithInterpolation(Gen("SinCosPosEmb_FPS_Aware", 12, 2, 2, 4, 1), "nearest")}

\* the constructor calls made
ConstructorArgs == Configs \cup FailingArgs

VARIABLES
    made,       \* the constructor call: its arguments and the error it raised
    pos_emb,    \* the generator object (its constructor arguments)
    cp_group,   \* self.cp_group
    toggled,    \* history: the last enable/disable call and its argument
    call,       \* the call in progress and its arguments, Idle between calls
    did         \* what that call did (Did)

vars == <<made, pos_emb, cp_group, toggled, call, did>>

Call(op, x_shape, fps, group) ==
    [op |-> op, shape |-> x_shape, fps |-> fps, group |-> group, ntk |-> NtkNone]
NoShape == <<0, 0, 0, 0>>
Idle == Call("idle", NoShape, FpsNone, NoGroup)
Nothing == Did(NoResult, 0, 0, NoAxis)
Toggle(op, group) == [op |-> op, group |-> group]

Made(args, err) == [args |-> args, err |-> err]
NoGenerator == Gen("none", 0, 0, 0, 0, 0)
NotMade == Made(NoGenerator, "no call")

Init ==
    /\ made = NotMade
    /\ pos_emb = NoGenerator
    /\ cp_group = NoGroup
    /\ toggled = Toggle("never", NoGroup)
    /\ call = Idle
    /\ did = Nothing

\* the constructor call: the generator exists only if __init__ returned
Construct ==
    \E args \in ConstructorArgs :
        /\ made = NotMade
        /\ made' = Made(args, construct(args))
        /\ pos_emb' = IF construct(args) = NoError THEN args ELSE NoGenerator
        /\ UNCHANGED <<cp_group, toggled, call, did>>

\* enable_context_parallel(cp_group)
enable_context_parallel ==
    \E g \in Groups :
        /\ pos_emb # NoGenerator
        /\ call = Idle
        /\ cp_group' = g
        /\ toggled' = Toggle("enable_context_parallel", g)
        /\ UNCHANGED <<made, pos_emb, call, did>>

\* disable_context_parallel()
disable_context_parallel_keeps_group ==
    /\ pos_emb # NoGenerator
    /\ call = Idle
    /\ toggled' = Toggle("disable_context_parallel", NoGroup)
    /\ UNCHANGED <<made, pos_emb, cp_group, call, did>>
disable_context_parallel ==
    /\ pos_emb # NoGenerator
    /\ call = Idle
    /\ cp_group' = NoGroup
    /\ toggled' = Toggle("disable_context_parallel", NoGroup)
    /\ UNCHANGED <<made, pos_emb, call, did>>

\* forward(x, fps) on an input of shape x_shape
Forward ==
    \E x_shape \in Shapes : \E fps \in FpsInputs(x_shape[1]) :
        /\ pos_emb # NoGenerator
        /\ call = Idle
        /\ call' = Call("forward", x_shape, fps, cp_group)
        /\ did' = forward(pos_emb, cp_group, x_shape, fps)
        /\ UNCHANGED <<made, pos_emb, cp_group, toggled>>

\* generate_embeddings(B_T_H_W_C, fps, h_ntk_factor, w_ntk_factor, t_ntk_factor)
\* called directly
GenerateEmbeddings ==
    \E B_T_H_W_C \in Shapes : \E fps \in FpsInputs(B_T_H_W_C[1]) :
      \E ntk \in (IF pos_emb.kind \in NtkKinds THEN NtkOverrides ELSE {NtkNone}) :
        /\ pos_emb # NoGenerator
        /\ call = Idle
        /\ call' = [Call("generate_embeddings", B_T_H_W_C, fps, cp_group) EXCEPT !.ntk = ntk]
        /\ did' = Did(generate_embeddings_ntk(pos_emb, B_T_H_W_C, fps, ntk), 0, 0, NoAxis)
        /\ UNCHANGED <<made, pos_emb, cp_group, toggled>>

\* the call returns: its result goes to the caller, the generator is unchanged
Return_clears_group ==
    /\ call # Idle
    /\ call' = Idle
    /\ did' = Nothing
    /\ cp_group' = NoGroup
    /\ UNCHANGED <<made, pos_emb, toggled>>
Return ==
    /\ call # Idle
    /\ call' = Idle
    /\ did' = Nothing
    /\ UNCHANGED <<made, pos_emb, cp_group, toggled>>

Next ==
    \/ Construct
    \/ enable_context_parallel
    \/ disable_context_parallel
    \/ Forward
    \/ GenerateEmbeddings
    \/ Return

Spec == Init /\ [][Next]_vars


\* ------------------------------------------------------ reading a tensor
\* the sub-tensors x[o, j] for every leading index o, axis a (0-based) at j
Take(x, a, j) ==
    LET n == x.shape[a + 1]
        inner == Prod(SubSeq(x.shape, a + 2, Len(x.shape)))
        outer_n == Prod(SubSeq(x.shape, 1, a))
    IN  [o \in 0..(outer_n - 1) |->
           SubSeq(x.data, (o * n + j) * inner + 1, (o * n + j + 1) * inner)]

\* the frame t of a rotary tensor whose axis 0 is (t h w): its H*W rows
RotaryFrame(x, t, H, W) == [r \in 0..(H * W - 1) |-> Take(x, 0, t * H * W + r)]

IsForwardWithGroup == call.op = "forward" /\ call.group # NoGroup

\* ---------------------------------------------------------------- claims
AdditiveKinds ==
    {"SinCosPosEmbAxis", "LearnablePosEmbAxis", "SinCosPosEmb", "SinCosPosEmb_FPS_Aware"}

\* the embedding of the unsharded shape (B, T_local * N, H, W, C) of the call
C1_Global ==
    generate_embeddings(pos_emb,
        <<call.shape[1], call.shape[2] * call.group.size, call.shape[3], call.shape[4]>>,
        call.fps)

\* the number of frames of a generated tensor
C1_Frames(x) ==
    IF pos_emb.kind = "VideoRopePosition3DEmb"
    THEN x.shape[1] \div (call.shape[3] * call.shape[4])
    ELSE x.shape[2]

C1_Frame(x, t) ==
    IF pos_emb.kind = "VideoRopePosition3DEmb"
    THEN RotaryFrame(x, t, call.shape[3], call.shape[4])
    ELSE Take(x, 1, t)

C1_Case ==
    /\ IsForwardWithGroup
    /\ pos_emb.kind \in {"VideoRopePosition3DEmb"} \cup AdditiveKinds
    /\ C1_Global.ok
    /\ C1_Frames(C1_Global) = call.shape[2] * call.group.size

\* C1: with an active group of size N, forward on rank i of
\* VideoRopePosition3DEmb and of the additive generators returns exactly the
\* i-th contiguous block of T_local frames of the embedding generated for
\* the global shape (B, T_local * N, H, W, C), whenever that global
\* embedding has all its T_local * N frames.
C1_ShardIsBlockOfGlobal ==
    C1_Case =>
        /\ did.out.ok
        /\ Len(did.out.shape) = Len(C1_Global.shape)
        /\ C1_Frames(did.out) = call.shape[2]
        /\ Len(did.out.data) * call.group.size = Len(C1_Global.data)
        /\ \A t \in 0..(call.shape[2] - 1) :
              C1_Frame(did.out, t) = C1_Frame(C1_Global, call.group.rank * call.shape[2] + t)

C1_Witness ==
    /\ C1_Case
    /\ pos_emb.kind = "VideoRopePosition3DEmb"
    /\ call.group = [size |-> 2, rank |-> 1]
    /\ call.shape[2] = 2
    /\ call.shape[3] = 2
    /\ did.out.ok

RotaryKinds ==
    {"VideoRopePositionEmb", "VideoRopePosition3DEmb"}

\* C2: in VideoPositionEmb.forward with an active group, the axis handed to
\* the sequence splitter is axis 0 for every rotary generator's output
\* (VideoRopePositionEmb and VideoRopePosition3DEmb) and axis 1 for every
\* sincos/learnable generator's output.
C2_SplitAxisIsTimeAxis ==
    (IsForwardWithGroup /\ ~IsMultiCamera(pos_emb) /\ did.split_calls = 1) =>
        did.seq_dim = (IF pos_emb.kind \in RotaryKinds THEN 0 ELSE 1)

\* the embedding of the global multi-camera shape of the call
C3_Global ==
    generate_embeddings(pos_emb,
        <<call.shape[1], call.shape[2] * call.group.size, call.shape[3], call.shape[4]>>,
        call.fps)

C3_Case ==
    /\ IsForwardWithGroup
    /\ pos_emb.kind = "MultiCameraVideoRopePosition3DEmb"
    /\ call.shape[2] % pos_emb.n_views = 0
    /\ C3_Global.ok

\* C3: MultiCameraVideoRopePosition3DEmb with n_views = V, a group of size N
\* and a local input of V * t0 frames: forward on rank r returns, in view
\* order, exactly the rows of the global embedding (V views of t0 * N frames
\* each) of view v and per-view frames [r * t0, (r + 1) * t0), for all (h, w).
C3_ShardPerView ==
    C3_Case =>
        LET V == pos_emb.n_views
            t0 == call.shape[2] \div V
            N == call.group.size
            r == call.group.rank
            H == call.shape[3]
            W == call.shape[4]
        IN  /\ did.out.ok
            /\ did.out.shape = <<V * t0 * H * W, 1, 1, C3_Global.shape[4]>>
            /\ C3_Global.shape = <<V * t0 * N, H, W, C3_Global.shape[4]>>
            /\ \A v \in 0..(V - 1) : \A t \in 0..(t0 - 1) : \A hw \in 0..(H * W - 1) :
                  Take(did.out, 0, (v * t0 + t) * H * W + hw)[0]
                    = SubSeq(C3_Global.data,
                             ((v * t0 * N + r * t0 + t) * H * W + hw) * C3_Global.shape[4] + 1,
                             ((v * t0 * N + r * t0 + t) * H * W + hw + 1) * C3_Global.shape[4])

C3_Witness ==
    /\ C3_Case
    /\ call.group = [size |-> 2, rank |-> 1]
    /\ call.shape[2] = 2
    /\ call.shape[3] = 2
    /\ did.out.ok

\* what generate_embeddings returns for the arguments of the call
C4_Generated == generate_embeddings(pos_emb, call.shape, call.fps)

C4_NoGroupActive == toggled.op \in {"never", "disable_context_parallel"}

\* with no group active forward consults neither collaborator; with a group
\* active it asks for the ranks exactly once, of the group enabled last
C4_Collaborators ==
    /\ (call.op = "forward" /\ C4_NoGroupActive) =>
          /\ did.ranks_asked = 0
          /\ did.split_calls = 0
    /\ (call.op = "forward" /\ ~C4_NoGroupActive) =>
          /\ did.ranks_asked = 1
          /\ call.group = toggled.group
          /\ call.group # NoGroup

\* C4 as stated: after any sequence of enable_context_parallel and
\* disable_context_parallel calls, if no group is active (never enabled, or
\* disabled after the last enable) forward returns exactly the tensor
\* generate_embeddings returns for the input's own shape and calls neither
\* the rank enumerator nor the splitter; if a group is active the rank
\* enumerator is asked exactly once per forward call, about the group given
\* to the most recent enable_context_parallel.
C4_ForwardWithoutGroupIsGenerate ==
    /\ C4_Collaborators
    /\ (call.op = "forward" /\ C4_NoGroupActive) => did.out = C4_Generated

\* C4, amended: as above, except that the forward of
\* MultiCameraVideoRopePosition3DEmb without a group returns the elements of
\* the (T, H, W, D) tensor of generate_embeddings in the same order under
\* the shape (T * H * W, 1, 1, D).
C4_ForwardWithoutGroupIsGenerateFlattened ==
    /\ C4_Collaborators
    /\ (call.op = "forward" /\ C4_NoGroupActive) =>
          IF pos_emb.kind = "MultiCameraVideoRopePosition3DEmb" /\ C4_Generated.ok
          THEN /\ did.out.ok
               /\ did.out.data = C4_Generated.data
               /\ did.out.shape = <<C4_Generated.shape[1] * C4_Generated.shape[2]
                                        * C4_Generated.shape[3], 1, 1, C4_Generated.shape[4]>>
          ELSE did.out = C4_Generated

C4_Witness ==
    /\ call.op = "forward"
    /\ toggled.op = "disable_context_parallel"
    /\ pos_emb.kind = "MultiCameraVideoRopePosition3DEmb"
    /\ did.out.ok
    /\ call.shape[2] = 2
    /\ call.shape[3] = 2

\* a forward that used the group of the most recent enable_context_parallel
C4_WitnessGroup ==
    /\ call.op = "forward"
    /\ toggled = Toggle("enable_context_parallel", [size |-> 2, rank |-> 1])
    /\ did.ranks_asked = 1
    /\ did.out.ok

\* the single-camera generator of the same head_dim and lengths
C5_SingleCamera == [pos_emb EXCEPT !.kind = "VideoRopePosition3DEmb", !.n_views = 1]

\* its output for the per-view shape (B, T0, H, W) of the call
C5_SingleCameraOutput ==
    VideoRopePosition3DEmb_generate_embeddings(C5_SingleCamera,
        <<call.shape[1], call.shape[2] \div pos_emb.n_views, call.shape[3], call.shape[4]>>,
        call.fps, NtkNone)

C5_Case ==
    /\ call.op = "generate_embeddings"
    /\ call.ntk = NtkNone
    /\ pos_emb.kind = "MultiCameraVideoRopePosition3DEmb"
    /\ call.shape[2] % pos_emb.n_views = 0
    /\ call.fps.kind = "tensor"
    /\ AllEqual(call.fps.v)
    /\ C5_SingleCameraOutput.ok

\* C5: for MultiCameraVideoRopePosition3DEmb with V views, an input of
\* T = V * T0 frames and a uniform fps, the generated embedding has V * T0
\* frames and the segment of every view equals, element for element and in
\* the same layout, the output of VideoRopePosition3DEmb (same head_dim and
\* lengths) for the per-view shape (B, T0, H, W, C) and the same fps.
C5_ViewsEqualSingleCamera ==
    C5_Case =>
        LET V == pos_emb.n_views
            T0 == call.shape[2] \div V
            one == C5_SingleCameraOutput
            n == Len(one.data)
        IN  /\ did.out.ok
            /\ did.out.shape[1] = V * T0
            /\ Len(did.out.data) = V * n
            /\ \A v \in 0..(V - 1) : SubSeq(did.out.data, v * n + 1, (v + 1) * n) = one.data
            /\ Prod(did.out.shape) = V * Prod(one.shape)

\* the part of C5 about the time axis alone
C5_TimeAxisLength ==
    C5_Case => did.out.ok /\ did.out.shape[1] = call.shape[2]

\* a call of a rotary 3-D generator's generate_embeddings that returned
IsRope3DGenerated ==
    /\ call.op = "generate_embeddings"
    /\ call.ntk = NtkNone
    /\ pos_emb.kind = "VideoRopePosition3DEmb"
    /\ did.out.ok

\* the temporal position of frame k under the fps of the call:
\* k * base_fps / fps, and k itself when fps is absent
TemporalIndex(k) ==
    IF call.fps.kind = "none" THEN Frac(k, 1)
    ELSE Frac(k * pos_emb.base_fps, call.fps.v[1])

\* the temporal position used for frame t of view v in the tensor a
\* generate_embeddings call returned (read off the first channel pair of
\* its row at h = w = 0)
TemporalIndexUsed(v, t) ==
    LET H == call.shape[3]
        W == call.shape[4]
        T0 == call.shape[2] \div pos_emb.n_views
    IN  IF pos_emb.kind = "VideoRopePosition3DEmb"
        THEN did.out.data[(t * H * W) * (pos_emb.dim \div 2) * 4 + 1][2][2]
        ELSE did.out.data[((v * T0 + t) * H * W) * pos_emb.dim + 1][2]

\* the angle of channel pair c (0-based) at grid point (t, h, w): the bands
\* of dim_t/2 temporal, dim_h/2 height and dim_w/2 width pairs in this order
C6_Angle(t, h, w, c) ==
    LET Pt == dim_t(pos_emb) \div 2
        Ps == dim_h(pos_emb) \div 2
    IN  IF c < Pt THEN Angle(TemporalIndex(t), <<1, c, dim_t(pos_emb)>>)
        ELSE IF c < Pt + Ps THEN Angle(Frac(h, 1), <<1, c - Pt, dim_h(pos_emb)>>)
        ELSE Angle(Frac(w, 1), <<1, c - Pt - Ps, dim_w(pos_emb)>>)

\* the 2x2 block [[cos, -sin], [sin, cos]] of an angle, entry (i, j)
C6_Block(a, i, j) ==
    IF i = j THEN <<"cos", a>> ELSE IF i = 0 THEN <<"-sin", a>> ELSE <<"sin", a>>

\* the axis widths of head_dim = 96: dim_h = dim_w = dim_t = 32, 48 pairs
C6_ScenarioDims ==
    LET g == Gen("VideoRopePosition3DEmb", 96, 8, 8, 8, 1)
    IN  /\ dim_h(g) = 32 /\ dim_w(g) = 32 /\ dim_t(g) = 32
        /\ Len(dim_temporal_range(g)) + 2 * Len(dim_spatial_range(g)) = 48

\* C6: VideoRopePosition3DEmb.generate_embeddings returns a tensor of shape
\* (T*H*W, head_dim/2, 2, 2) whose row p = (t*H + h)*W + w belongs to grid
\* point (t, h, w), whose channel pairs are the temporal, height and width
\* bands in this order, evaluated at the point's own t, h and w, and whose
\* 2x2 block is [[cos, -sin], [sin, cos]] of the pair's angle.
C6_LayoutOfRope3D ==
    IsRope3DGenerated =>
        LET T == call.shape[2]
            H == call.shape[3]
            W == call.shape[4]
            P == pos_emb.dim \div 2
        IN  /\ C6_ScenarioDims
            /\ did.out.shape = <<T * H * W, P, 2, 2>>
            /\ Len(did.out.data) = T * H * W * P * 4
            /\ \A t \in 0..(T - 1) : \A h \in 0..(H - 1) : \A w \in 0..(W - 1) :
               \A c \in 0..(P - 1) : \A i, j \in 0..1 :
                  did.out.data[((((t * H + h) * W + w) * P + c) * 2 + i) * 2 + j + 1]
                     = C6_Block(C6_Angle(t, h, w, c), i, j)

\* the same statement when the index buffer is at least as long as T
C6_LayoutWithinBuffer ==
    (IsRope3DGenerated /\ call.shape[2] <= Len(seq(pos_emb))) => C6_LayoutOfRope3D

\* the fps inputs C7 lists: a scalar; a per-batch tensor of equal values;
\* a per-batch tensor of any values when T = 1 or B = 1
C7_FpsListed ==
    \/ call.fps.kind = "scalar"
    \/ call.fps.kind = "tensor" /\ AllEqual(call.fps.v)
    \/ call.fps.kind = "tensor" /\ (call.shape[2] = 1 \/ call.shape[1] = 1)

C7_Case ==
    /\ call.op = "generate_embeddings"
    /\ pos_emb.kind = "VideoRopePosition3DEmb"
    /\ C7_FpsListed
    /\ call.shape[2] <= Len(seq(pos_emb))
    /\ call.shape[3] <= pos_emb.len_h
    /\ call.shape[4] <= pos_emb.len_w

\* C7: VideoRopePosition3DEmb.generate_embeddings accepts every fps that is
\* a scalar, a per-batch tensor of equal values (any B and T), or a
\* per-batch tensor of any values when T = 1 or B = 1, and returns the
\* T*H*W rows of the embedding, frame k at temporal index k * base_fps / fps.
C7_FpsInputsAccepted ==
    C7_Case =>
        /\ did.out.ok
        /\ did.out.shape[1] = call.shape[2] * call.shape[3] * call.shape[4]
        /\ \A k \in 0..(call.shape[2] - 1) : TemporalIndexUsed(0, k) = TemporalIndex(k)

\* the scalar case of C7 alone
C7_ScalarAccepted ==
    (C7_Case /\ call.fps.kind = "scalar") =>
        /\ did.out.ok
        /\ did.out.shape[1] = call.shape[2] * call.shape[3] * call.shape[4]
        /\ \A k \in 0..(call.shape[2] - 1) :
              TemporalIndexUsed(0, k) = Frac(k * pos_emb.base_fps, call.fps.v[1])

\* the shape generate_embeddings sees in the call: forward with a group
\* multiplies the frame count by the group size
GeneratedShape ==
    IF call.op = "forward" /\ call.group # NoGroup
    THEN GlobalShape(call.shape, call.group.size)
    ELSE call.shape

C8_NonUniform == call.fps.kind = "tensor" /\ ~AllEqual(call.fps.v)

C8_Case ==
    /\ call.op \in {"forward", "generate_embeddings"}
    /\ C8_NonUniform
    /\ \/ pos_emb.kind = "MultiCameraVideoRopePosition3DEmb"
       \/ /\ pos_emb.kind = "VideoRopePosition3DEmb"
          /\ GeneratedShape[1] > 1
          /\ GeneratedShape[2] > 1

\* C8: a per-batch fps tensor with unequal values is rejected by an
\* assertion, and no embedding is returned, by VideoRopePosition3DEmb when
\* B > 1 and T > 1, and by MultiCameraVideoRopePosition3DEmb for every B and T.
C8_NonUniformFpsRejected ==
    C8_Case =>
        /\ ~did.out.ok
        /\ did.out.data = <<>>
        /\ did.out.err = (IF pos_emb.kind = "VideoRopePosition3DEmb"
                          THEN "AssertionError: fps" ELSE "AssertionError: uniform_fps")

C8_Witness ==
    /\ C8_Case
    /\ pos_emb.kind = "VideoRopePosition3DEmb"
    /\ call.op = "generate_embeddings"
    /\ call.shape = <<2, 2, 1, 1>>
    /\ call.fps = FpsTensor(<<BaseFps, 2 * BaseFps>>)
    /\ did.out.err = "AssertionError: fps"

\* the multi-camera generator rejecting a non-uniform fps at B = 2, T = 2
C8_WitnessMultiCamera ==
    /\ C8_Case
    /\ pos_emb.kind = "MultiCameraVideoRopePosition3DEmb"
    /\ call.shape[2] = 2
    /\ did.out.err = "AssertionError: uniform_fps"

\* the frames of one view in the call
C9_PerViewT == GeneratedShape[2] \div pos_emb.n_views

C9_Case ==
    /\ call.op \in {"forward", "generate_embeddings"}
    /\ pos_emb.kind \in {"VideoRopePosition3DEmb", "MultiCameraVideoRopePosition3DEmb"}
    /\ call.fps.kind = "none"

\* C9 as stated: with fps absent both rotary generators require T = 1 (per
\* view for the multi-camera one) and reject any T > 1 with an error; with
\* T = 1 the temporal index is 0.
C9_ImageCaseRequiresOneFrame ==
    C9_Case =>
        /\ C9_PerViewT > 1 => ~did.out.ok
        /\ (C9_PerViewT = 1 /\ did.out.ok /\ call.op = "generate_embeddings") =>
              \A v \in 0..(pos_emb.n_views - 1) : TemporalIndexUsed(v, 0) = Frac(0, 1)

\* what the code does with fps absent: MultiCameraVideoRopePosition3DEmb
\* requires one frame per view and rejects every other frame count by an
\* assertion; VideoRopePosition3DEmb makes no such check, it accepts every T
\* up to the length of its index buffer (with H, W within bounds) and uses
\* the unscaled index k for frame k; with T = 1 the temporal index is 0 in
\* both.
C9_ImageCaseMultiCameraOnly ==
    C9_Case =>
        /\ (pos_emb.kind = "MultiCameraVideoRopePosition3DEmb" /\ C9_PerViewT # 1) =>
              /\ ~did.out.ok
              /\ did.out.err \in {"AssertionError: T should be 1", "AssertionError: H, W"}
        /\ (pos_emb.kind = "VideoRopePosition3DEmb" /\ call.op = "generate_embeddings"
               /\ call.shape[2] <= Len(seq(pos_emb))
               /\ call.shape[3] <= pos_emb.len_h /\ call.shape[4] <= pos_emb.len_w) =>
              /\ did.out.ok
              /\ did.out.shape[1] = call.shape[2] * call.shape[3] * call.shape[4]
              /\ \A k \in 0..(call.shape[2] - 1) : TemporalIndexUsed(0, k) = Frac(k, 1)
        /\ (C9_PerViewT = 1 /\ did.out.ok /\ call.op = "generate_embeddings") =>
              \A v \in 0..(pos_emb.n_views - 1) : TemporalIndexUsed(v, 0) = Frac(0, 1)

\* the single-view generator accepting two frames without fps
C9_Witness ==
    /\ C9_Case
    /\ pos_emb.kind = "VideoRopePosition3DEmb"
    /\ call.op = "generate_embeddings"
    /\ call.shape[2] = 2
    /\ did.out.ok
    /\ TemporalIndexUsed(0, 1) = Frac(1, 1)

\* the multi-camera generator rejecting two frames per view without fps
C9_WitnessMultiCamera ==
    /\ C9_Case
    /\ pos_emb.kind = "MultiCameraVideoRopePosition3DEmb"
    /\ C9_PerViewT = 2
    /\ did.out.err = "AssertionError: T should be 1"

C10_Case ==
    /\ call.op = "generate_embeddings"
    /\ pos_emb.kind \in {"VideoRopePosition3DEmb", "MultiCameraVideoRopePosition3DEmb"}
    /\ call.fps.kind # "none"
    /\ did.out.ok

\* C10: with fps present, the temporal index a rotary generator gives to
\* frame k (of every view) is k * base_fps / fps: at fps = base_fps it is k,
\* and frame 2k at fps 2f has the index of frame k at fps f.
C10_FrameRateRescaling ==
    C10_Case =>
        LET f == call.fps.v[1]
            base == pos_emb.base_fps
            T0 == call.shape[2] \div pos_emb.n_views
        IN  \A v \in 0..(pos_emb.n_views - 1) : \A k \in 0..(T0 - 1) :
               /\ TemporalIndexUsed(v, k) = Frac(k * base, f)
               /\ f = base => TemporalIndexUsed(v, k) = <<k, 1>>
               /\ (k % 2 = 0 /\ f % 2 = 0) =>
                     TemporalIndexUsed(v, k) = Frac((k \div 2) * base, f \div 2)

\* the same statement when the index buffer is at least as long as T
C10_RescalingWithinBuffer ==
    (C10_Case /\ call.shape[2] <= Len(seq(pos_emb))) => C10_FrameRateRescaling

\* --------------------------------------------------------------- C11
AxisSplitKinds ==
    {"VideoRopePosition3DEmb", "MultiCameraVideoRopePosition3DEmb",
     "SinCosPosEmbAxis", "MultiCameraSinCosPosEmbAxis"}

C11_Case == made.args.kind \in AxisSplitKinds /\ made.args.interpolation = "crop"

C11_AllEven ==
    dim_h(made.args) % 2 = 0 /\ dim_w(made.args) % 2 = 0 /\ dim_t(made.args) % 2 = 0

\* C11: for every generator with the axis split and every channel count d,
\* construction succeeds, with dim_h + dim_w + dim_t = d, when dim_h = dim_w =
\* floor(d/6)*2 and dim_t = d - 2*dim_h are all even; otherwise (odd d)
\* construction raises and no generator object exists.
C11_AxisSplitDecidesConstruction ==
    C11_Case =>
        IF C11_AllEven
        THEN /\ made.err = NoError
             /\ pos_emb = made.args
             /\ dim_h(pos_emb) + dim_w(pos_emb) + dim_t(pos_emb) = pos_emb.dim
        ELSE /\ made.err # NoError
             /\ pos_emb = NoGenerator

\* the part of C11 the sincos axis generators satisfy
C11_SinCosAxisOnly ==
    (C11_Case /\ made.args.kind \in {"SinCosPosEmbAxis", "MultiCameraSinCosPosEmbAxis"}) =>
        C11_AxisSplitDecidesConstruction

\* an odd head_dim constructed
C11_OddConstructed ==
    /\ made.args.kind = "VideoRopePosition3DEmb"
    /\ made.args.dim % 2 = 1
    /\ pos_emb = made.args

\* --------------------------------------------------------------- C12
\* the generators with one table or frequency range per axis
BoundedKinds ==
    {"VideoRopePosition3DEmb", "MultiCameraVideoRopePosition3DEmb", "SinCosPosEmb",
     "SinCosPosEmb_FPS_Aware", "SinCosPosEmbAxis", "MultiCameraSinCosPosEmbAxis",
     "LearnablePosEmbAxis"}

C12_Case ==
    /\ call.op = "generate_embeddings"
    /\ pos_emb.kind \in BoundedKinds
    /\ (call.shape[3] > pos_emb.len_h \/ call.shape[4] > pos_emb.len_w)

\* C12: every generator with a bounded table or frequency range fails a
\* call that asks for H > len_h or W > len_w; none returns an embedding
\* (smaller than requested, or filled by broadcasting a too-short table).
C12_OversizeRejected == C12_Case => ~did.out.ok

\* the generators that do reject: those with an assertion on H and W or a
\* concatenation of the per-axis blocks
C12_RejectingKinds ==
    (C12_Case /\ pos_emb.kind \in {"VideoRopePosition3DEmb", "MultiCameraVideoRopePosition3DEmb",
                                   "SinCosPosEmbAxis", "MultiCameraSinCosPosEmbAxis"})
        => ~did.out.ok

\* SinCosPosEmb returning a table cropped below the requested height
C12_Truncated ==
    /\ C12_Case
    /\ pos_emb.kind = "SinCosPosEmb"
    /\ did.out.ok
    /\ did.out.shape[3] < call.shape[3]

\* LearnablePosEmbAxis returning the requested height by broadcasting its
\* one-row table
C12_Broadcast ==
    /\ C12_Case
    /\ pos_emb.kind = "LearnablePosEmbAxis"
    /\ did.out.ok
    /\ did.out.shape[3] = call.shape[3]

\* --------------------------------------------------------------- C13
\* a crop-mode call of a whole-table generator within the stored extents
C13_Case ==
    /\ call.op = "generate_embeddings"
    /\ pos_emb.kind \in {"SinCosPosEmb", "LearnableEmb3D"}
    /\ pos_emb.interpolation = "crop"
    /\ call.shape[2] <= pos_emb.len_t
    /\ call.shape[3] <= pos_emb.len_h
    /\ call.shape[4] <= pos_emb.len_w

\* output[0, t, h, w, :] == table[0, t, h, w, :] with extents (1, T, H, W, C)
C13_LeadingSubTensor(table, C) ==
    LET T == call.shape[2]
        H == call.shape[3]
        W == call.shape[4]
    IN  /\ did.out.ok
        /\ did.out.shape = <<1, T, H, W, C>>
        /\ \A t \in 0..(T - 1) : \A h \in 0..(H - 1) : \A w \in 0..(W - 1) :
              SubSeq(did.out.data, ((t * H + h) * W + w) * C + 1,
                                   ((t * H + h) * W + w + 1) * C)
                = table[t][h][w]

\* the SinCosPosEmb half: the leading sub-tensor of the stored table, and the
\* generator (with its table) as it was constructed
C13_SinCosPosEmbCrop ==
    (C13_Case /\ pos_emb.kind = "SinCosPosEmb")
        => /\ C13_LeadingSubTensor(SinCosPosEmb_pos_embed(made.args), made.args.dim)
           /\ pos_emb = made.args

C13_SinCosPosEmbWitness ==
    /\ C13_Case
    /\ pos_emb.kind = "SinCosPosEmb"
    /\ call.shape[2] = 2 /\ call.shape[4] = 2
    /\ call.shape[2] < pos_emb.len_t

\* C13: in crop mode, for every request within the stored table's extents,
\* SinCosPosEmb and LearnableEmb3D return exactly the leading sub-tensor of
\* the stored table with extents (1, T, H, W, C) and leave the table
\* unchanged; a LearnableEmb3D configured for crop is there to serve it.
C13_CropReturnsLeadingSubTensor ==
    /\ C13_SinCosPosEmbCrop
    /\ (made.args.kind = "LearnableEmb3D" /\ made.args.interpolation = "crop")
          => made.err = NoError

\* --------------------------------------------------------------- C14
\* a crop-mode video request of the fps-bucketed table, every sample's fps
\* between min_fps and max_fps
C14_Case ==
    /\ call.op = "generate_embeddings"
    /\ pos_emb.kind = "SinCosPosEmb_FPS_Aware"
    /\ pos_emb.interpolation = "crop"
    /\ 1 < call.shape[2] /\ call.shape[2] <= pos_emb.len_t
    /\ call.fps.kind = "tensor"
    /\ \A i \in 1..Len(call.fps.v) :
          pos_emb.min_fps <= call.fps.v[i] /\ call.fps.v[i] <= pos_emb.max_fps

\* max_fps / f truncated toward zero: the largest s with s * f <= max_fps
C14_Stride(f) ==
    CHOOSE s \in 0..pos_emb.max_fps : s * f <= pos_emb.max_fps /\ (s + 1) * f > pos_emb.max_fps

\* the (h, w) plane of the output at sample b, time entry k
C14_OutputPlane(b, k) ==
    LET T == did.out.shape[2]
        nh == did.out.shape[3]
        nw == did.out.shape[4]
        C == did.out.shape[5]
    IN  [h \in 0..(nh - 1) |-> [w \in 0..(nw - 1) |->
           SubSeq(did.out.data, (((b * T + k) * nh + h) * nw + w) * C + 1,
                                (((b * T + k) * nh + h) * nw + w + 1) * C)]]

\* the (h, w) plane of the stored table at time index t, cut to the output
C14_TablePlane(t) ==
    LET tab == SinCosPosEmb_FPS_Aware_pos_embed(pos_emb)
    IN  [h \in 0..(did.out.shape[3] - 1) |-> [w \in 0..(did.out.shape[4] - 1) |->
           tab[t][h][w]]]

\* C14: for the fps-bucketed table in crop mode (time length
\* len_t * floor(max_fps / min_fps)), 1 < T <= len_t and every sample's fps f
\* in [min_fps, max_fps]: the sample's output has exactly T time entries, the
\* k-th is table time index k * floor(max_fps / f), every such index is
\* inside the table, and a higher fps never has a larger stride.
C14_StridedCrop ==
    C14_Case =>
        /\ did.out.ok
        /\ did.out.shape[1] = Len(call.fps.v)
        /\ did.out.shape[2] = call.shape[2]
        /\ \A i \in 1..Len(call.fps.v) : \A k \in 0..(call.shape[2] - 1) :
              /\ k * C14_Stride(call.fps.v[i])
                    < pos_emb.len_t * C14_Stride(pos_emb.min_fps)
              /\ C14_OutputPlane(i - 1, k) = C14_TablePlane(k * C14_Stride(call.fps.v[i]))
        /\ \A i, j \in 1..Len(call.fps.v) :
              call.fps.v[i] <= call.fps.v[j]
                  => C14_Stride(call.fps.v[j]) <= C14_Stride(call.fps.v[i])

\* two samples of different fps, strides 2 and 1 (60 / 24 truncated, 60 / 48
\* truncated)
C14_Witness ==
    /\ C14_Case
    /\ did.out.ok
    /\ Len(call.fps.v) = 2
    /\ call.fps.v[1] < call.fps.v[2]
    /\ C14_Stride(call.fps.v[1]) = 2
    /\ C14_Stride(call.fps.v[2]) = 1

\* --------------------------------------------------------------- C15
\* a constructed generator whose table get_3d_sincos_pos_embed built
C15_Case ==
    /\ pos_emb.kind \in {"SinCosPosEmb", "SinCosPosEmb_FPS_Aware"}
    /\ pos_emb.interpolation = "crop"

\* the stored table after the reshape "(h w t) c -> 1 t h w c"
C15_Table ==
    IF pos_emb.kind = "SinCosPosEmb"
    THEN SinCosPosEmb_pos_embed(pos_emb)
    ELSE SinCosPosEmb_FPS_Aware_pos_embed(pos_emb)

\* the entry built from height position h, width position w, time position t
C15_Entry(t, h, w) ==
    get_1d_sincos_pos_embed_from_grid(sincos_3d_per_axis(pos_emb.dim), <<Frac(h, 1)>>)[1]
      \o get_1d_sincos_pos_embed_from_grid(sincos_3d_per_axis(pos_emb.dim), <<Frac(w, 1)>>)[1]
      \o get_1d_sincos_pos_embed_from_grid(sincos_3d_dim_t(pos_emb.dim), <<Frac(t, 1)>>)[1]

C15_TableIsByPosition ==
    \A t \in DOMAIN C15_Table : \A h \in 0..(pos_emb.len_h - 1) : \A w \in 0..(pos_emb.len_w - 1) :
        C15_Table[t][h][w] = C15_Entry(t, h, w)

\* C15: for all grid sizes, grid_h # grid_w included, the table of
\* get_3d_sincos_pos_embed is flattened with H outermost, then W, then T:
\* after the reshape "(h w t) c -> 1 t h w c" the entry at (t, h, w) has
\* height position h in its h block, width position w in its w block and
\* time position t in its t block.
C15_TableLayout == C15_Case => C15_TableIsByPosition

\* the layout is the claimed one on square grids
C15_SquareGridLayout ==
    (C15_Case /\ pos_emb.len_h = pos_emb.len_w) => C15_TableIsByPosition

C15_SquareGrid ==
    /\ C15_Case /\ pos_emb.len_h = pos_emb.len_w /\ call.op = "generate_embeddings"

\* --------------------------------------------------------------- C16
\* a request to a table generator in an interpolating mode; a video request
\* to the fps-aware generator carries one fps per sample, within its range
C16_Case ==
    /\ call.op = "generate_embeddings"
    /\ pos_emb.kind \in {"SinCosPosEmb", "SinCosPosEmb_FPS_Aware"}
    /\ pos_emb.interpolation \in {"resize", "crop_resize"}
    /\ (pos_emb.kind = "SinCosPosEmb_FPS_Aware" /\ call.shape[2] > 1)
          => /\ call.fps.kind = "tensor"
             /\ \A i \in 1..Len(call.fps.v) :
                   pos_emb.min_fps <= call.fps.v[i] /\ call.fps.v[i] <= pos_emb.max_fps

\* five axes (b, T, H, W, model_channels), b in {1, B}
C16_RequestedExtents ==
    /\ did.out.ok
    /\ Len(did.out.shape) = 5
    /\ did.out.shape[1] \in {1, call.shape[1]}
    /\ did.out.shape[2] = call.shape[2]
    /\ did.out.shape[3] = call.shape[3]
    /\ did.out.shape[4] = call.shape[4]
    /\ did.out.shape[5] = pos_emb.dim

\* C16: in the resize and crop_resize modes every table generator returns,
\* for every requested T, H, W >= 1 (T = 1 for the fps-aware generators and
\* T # init_length_for_resize included), an additive tensor with the five
\* axes (b, T, H, W, model_channels), b in {1, B}, of exactly the requested
\* T, H and W.
C16_ResizeReturnsRequestedExtents == C16_Case => C16_RequestedExtents

\* the paths that do: crop_resize, and the fps-aware resize of a video
C16_WorkingPaths ==
    (C16_Case /\ \/ pos_emb.interpolation = "crop_resize"
                 \/ pos_emb.kind = "SinCosPosEmb_FPS_Aware" /\ call.shape[2] > 1)
        => C16_RequestedExtents

\* the fps-aware resize of one frame: four axes (1, H, W, C)
C16_ImageLosesTimeAxis ==
    /\ C16_Case
    /\ pos_emb.kind = "SinCosPosEmb_FPS_Aware"
    /\ call.shape[2] = 1
    /\ did.out.ok
    /\ Len(did.out.shape) = 4

\* the resize of SinCosPosEmb: the interpolation raises
C16_ResizeRaises ==
    /\ C16_Case
    /\ pos_emb.kind = "SinCosPosEmb"
    /\ pos_emb.interpolation = "resize"
    /\ ~did.out.ok

\* --------------------------------------------------------------- C17
\* the generators that take an interpolation mode, and the modes each has
\* a branch for
C17_Kinds ==
    {"LearnablePosEmbAxis", "SinCosPosEmbAxis", "MultiCameraSinCosPosEmbAxis",
     "LearnableEmb3D", "LearnableEmb3D_FPS_Aware", "SinCosPosEmb_FPS_Aware", "SinCosPosEmb"}

C17_Supported(kind) ==
    CASE kind \in {"LearnablePosEmbAxis", "SinCosPosEmbAxis", "MultiCameraSinCosPosEmbAxis"} ->
            {"crop"}
      [] kind = "SinCosPosEmb" -> {"crop", "resize", "crop_resize"}
      [] OTHER -> {"crop", "resize"}

C17_Case ==
    /\ made.args.kind \in C17_Kinds
    /\ made.args.interpolation \notin C17_Supported(made.args.kind)

\* C17: a table generator configured with an interpolation mode outside its
\* supported set never returns an embedding: either its construction fails
\* (no generator exists) or every generate call on it fails with an error,
\* directly or through forward; no other mode is used instead.
C17_UnsupportedModeNeverReturns ==
    C17_Case =>
        \/ made.err # NoError /\ pos_emb = NoGenerator
        \/ /\ pos_emb = made.args
           /\ call.op \in {"forward", "generate_embeddings"} => ~did.out.ok

\* a generate call on the generator that was constructed with an unknown mode
C17_Witness ==
    /\ C17_Case
    /\ made.err = NoError
    /\ call.op = "generate_embeddings"
    /\ ~did.out.ok

\* a construction that failed on the unknown mode
C17_WitnessConstruction ==
    /\ C17_Case
    /\ made.args.kind = "SinCosPosEmb_FPS_Aware"
    /\ made.err # NoError

\* --------------------------------------------------------------- C18
\* the group in force by the history of enable / disable calls
C18_EnabledGroup == IF C4_NoGroupActive THEN NoGroup ELSE toggled.group

\* C18: forward and generate_embeddings change no generator state (index
\* buffer, frequency ranges, NTK factors, tables, cp_group) and not the
\* input shape; after any sequence of calls, failed ones and ones with other
\* NTK overrides included, the generator is the constructed one, the group
\* is the one enabled last, and the result of a call is the function of the
\* construction config, the enabled group and the call's shape, fps and NTK
\* overrides, so identical calls return identical outputs.
C18_ResultIsFunctionOfConfigGroupArguments ==
    /\ made.err = NoError => pos_emb = made.args
    /\ cp_group = C18_EnabledGroup
    /\ call.op = "generate_embeddings" =>
          /\ did.out = generate_embeddings_ntk(made.args, call.shape, call.fps, call.ntk)
          /\ call.group = C18_EnabledGroup
    /\ call.op = "forward" =>
          /\ did = forward(made.args, C18_EnabledGroup, call.shape, call.fps)
          /\ call.group = C18_EnabledGroup

\* a call with NTK overrides, after a group was enabled, that returned
C18_Witness ==
    /\ call.op = "generate_embeddings"
    /\ call.ntk # NtkNone
    /\ toggled.op = "enable_context_parallel"
    /\ did.out.ok

\* a forward under an enabled group, and a failed call
C18_WitnessForward ==
    /\ call.op = "forward" /\ toggled.op = "enable_context_parallel" /\ did.out.ok

C18_WitnessFailed ==
    /\ call.op = "generate_embeddings" /\ call.ntk # NtkNone /\ ~did.out.ok

\* --------------------------------------------------------------- C19
\* a generate_embeddings call of the single-view rotary generator whose H
\* and W are within the generator's and whose fps passes the fps assertion
C19_Case ==
    /\ call.op = "generate_embeddings"
    /\ pos_emb.kind = "VideoRopePosition3DEmb"
    /\ call.shape[3] <= pos_emb.len_h
    /\ call.shape[4] <= pos_emb.len_w
    /\ Rope3D_fps_accepted(call.shape[1], call.shape[2], call.fps)

\* the frames of the returned tensor have T different temporal positions
C19_DistinctFrames ==
    \A j, k \in 0..(call.shape[2] - 1) :
        j # k => TemporalIndexUsed(0, j) # TemporalIndexUsed(0, k)

\* a returned tensor has T*H*W rows
C19_RowCount ==
    (C19_Case /\ did.out.ok)
        => did.out.shape[1] = call.shape[2] * call.shape[3] * call.shape[4]

\* C19: the single-view rotary generator never returns fewer than T*H*W
\* rows; T is not checked against len_t, so every T up to the length
\* max(len_h, len_w, len_t) of the index buffer is accepted with T distinct
\* frame indices 0..T-1, and every T beyond the buffer ends in an error, not
\* in a truncated or repeated temporal axis.
C19_TimeAxisWithinBufferOrError ==
    /\ C19_RowCount
    /\ (C19_Case /\ call.shape[2] <= Len(seq(pos_emb)) /\ call.fps.kind = "none")
          => /\ did.out.ok
             /\ \A k \in 0..(call.shape[2] - 1) : TemporalIndexUsed(0, k) = Frac(k, 1)
    /\ (C19_Case /\ call.shape[2] <= Len(seq(pos_emb)) /\ did.out.ok) => C19_DistinctFrames
    /\ (C19_Case /\ call.shape[2] > Len(seq(pos_emb))) => ~did.out.ok

\* the same without a per-sample fps tensor
C19_WithoutFpsTensor == call.fps.kind # "tensor" => C19_TimeAxisWithinBufferOrError

\* T beyond the buffer, rejected
C19_BeyondBufferRejected ==
    /\ C19_Case /\ call.shape[2] > Len(seq(pos_emb)) /\ ~did.out.ok

\* T beyond the buffer, returned with a repeated frame index
C19_RepeatedFrames ==
    /\ C19_Case /\ call.shape[2] > Len(seq(pos_emb)) /\ did.out.ok
    /\ ~C19_DistinctFrames

\* --------------------------------------------------------------- C20
C20_Case ==
    /\ call.op \in {"forward", "generate_embeddings"}
    /\ IsMultiCamera(pos_emb)

\* the number of frames in the returned tensor: the rotary tensor is
\* (T, H, W, D) from generate_embeddings and (T*H*W, 1, 1, D) from forward,
\* the sincos tensor is (B, T, H, W, D)
C20_Frames ==
    IF pos_emb.kind = "MultiCameraSinCosPosEmbAxis" THEN did.out.shape[2]
    ELSE IF call.op = "generate_embeddings" THEN did.out.shape[1]
    ELSE did.out.shape[1] \div (call.shape[3] * call.shape[4])

\* C20: every multi-camera generator either fails or returns an embedding
\* whose time extent is the requested T; when T is not a multiple of
\* n_views, no embedding of n_views * floor(T / n_views) < T frames is
\* returned, with or without an active context-parallel group.
C20_TimeExtentIsRequested ==
    (C20_Case /\ did.out.ok) => C20_Frames = call.shape[2]

\* the sincos generator: its shape assertion holds the extent
C20_SinCosAxisOnly ==
    (C20_Case /\ did.out.ok /\ pos_emb.kind = "MultiCameraSinCosPosEmbAxis")
        => C20_Frames = call.shape[2]

\* the sincos generator rejecting a T that is not a multiple of n_views
C20_SinCosAxisRejects ==
    /\ C20_Case
    /\ pos_emb.kind = "MultiCameraSinCosPosEmbAxis"
    /\ GeneratedShape[2] % pos_emb.n_views # 0
    /\ ~did.out.ok

\* the rotary generator returning fewer frames than requested
C20_FramesLost ==
    /\ C20_Case
    /\ pos_emb.kind = "MultiCameraVideoRopePosition3DEmb"
    /\ did.out.ok
    /\ C20_Frames < call.shape[2]

\* --------------------------------------------------------------- C21
\* a rotary constructor call whose axis split sums to head_dim with even
\* axis widths
C21_Case ==
    /\ made.args.kind \in NtkKinds
    /\ axis_split_asserted(made.args)
    /\ C11_AllEven

\* C21: for every head_dim whose axis split sums to head_dim with even axis
\* widths, construction of the rotary generators computes the three default
\* NTK factors extrapolation_ratio ** (dim_axis / (dim_axis - 2)) without
\* error: dim_axis - 2 is never zero for dim_h, dim_w or dim_t, and the
\* construction is not aborted by a division by zero.
C21_NtkFactorsComputed ==
    C21_Case =>
        /\ ntk_factor_defined(made.args)
        /\ made.err = NoError
        /\ pos_emb = made.args

\* the construction succeeds whenever no axis width is 2
C21_WidthsOtherThanTwo ==
    (C21_Case /\ ntk_factor_defined(made.args)) => made.err = NoError /\ pos_emb = made.args

\* dim_h = dim_w = 2: the construction aborted
C21_SpatialWidthTwo ==
    /\ C21_Case
    /\ dim_h(made.args) = 2
    /\ made.err = "ZeroDivisionError"
    /\ pos_emb = NoGenerator

\* dim_t = 2: the construction aborted
C21_TemporalWidthTwo ==
    /\ C21_Case
    /\ dim_t(made.args) = 2
    /\ made.err = "ZeroDivisionError"
    /\ pos_emb = NoGenerator

====
